---- MODULE Spec2Model ----
(***************************************************************************)
(* Model of the relay-template commit gatekeeper: the pre-receive and      *)
(* pre-commit hook scripts, the validation sandbox, the reference          *)
(* validation program, the signature gate and the relay_index.json         *)
(* projector.                                                              *)
(*                                                                         *)
(* Strings the code inspects character by character (paths, glob patterns, *)
(* regular expressions) are sequences of one-character strings.            *)
(***************************************************************************)
EXTENDS Integers, Sequences, FiniteSets, TLC

\* ------------------------------------------------------------ bounds
\* invocations of a hook per behaviour (also the largest clock value)
MaxInvocations == 2
\* records in one diff
MaxChanges == 2
\* segments of a path handed to globMatch on its own
MaxSegments == 3
\* accepted runs in a row when only the index is followed
MaxRuns == 3

\* ------------------------------------------------------------ strings
SLASH == "/"
BSL == "\\"

\* segments joined by "/" (how git names a path in the tree)
RECURSIVE JoinPath(_)
JoinPath(segs) ==
  IF Len(segs) = 0 THEN <<>>
  ELSE IF Len(segs) = 1 THEN segs[1]
  ELSE segs[1] \o <<SLASH>> \o JoinPath(Tail(segs))

StartsWith(s, pre) ==
  /\ Len(pre) <= Len(s)
  /\ SubSeq(s, 1, Len(pre)) = pre

\* String.prototype.endsWith
EndsWith(s, suf) ==
  /\ Len(suf) <= Len(s)
  /\ SubSeq(s, Len(s) - Len(suf) + 1, Len(s)) = suf

\* String.prototype.replace with a global pattern matching the literal pat
RECURSIVE ReplaceAll(_, _, _)
ReplaceAll(s, pat, rep) ==
  IF s = <<>> THEN <<>>
  ELSE IF StartsWith(s, pat) THEN rep \o ReplaceAll(SubSeq(s, Len(pat) + 1, Len(s)), pat, rep)
  ELSE <<Head(s)>> \o ReplaceAll(Tail(s), pat, rep)

LastSlash(p) ==
  LET S == {i \in 1..Len(p) : p[i] = SLASH}
  IN IF S = {} THEN 0 ELSE CHOOSE i \in S : \A j \in S : j <= i

\* path.posix.dirname for paths without a trailing slash
Dirname(p) ==
  LET i == LastSlash(p)
  IN IF i = 0 THEN <<".">>
     ELSE IF i = 1 THEN <<SLASH>>
     ELSE SubSeq(p, 1, i - 1)

\* ------------------------------------------------------------ globMatch
\* the characters esc() prefixes with a backslash: [.+^${}()|\[\]\\]
EscSet == {".", "+", "^", "$", "{", "}", "(", ")", "|", "[", "]", BSL}

RECURSIVE esc(_)
esc(s) ==
  IF s = <<>> THEN <<>>
  ELSE (IF Head(s) \in EscSet THEN <<BSL, Head(s)>> ELSE <<Head(s)>>) \o esc(Tail(s))

NotSlashStar == <<"[", "^", "/", "]", "*">>

\* the regular-expression source globMatch builds (without the ^ and $)
GlobRegexSource(pattern) ==
  LET r1 == esc(pattern)
      r2 == ReplaceAll(r1, <<BSL, BSL>>, <<SLASH>>)
      r3 == ReplaceAll(r2, <<"*", "*">>, <<".", "*">>)
      r4 == ReplaceAll(r3, <<"*">>, NotSlashStar)
  IN r4

\* The regular expression as its atoms: a literal, "." (any character),
\* ".*" and "[^/]*".
RECURSIVE RegexAtoms(_)
RegexAtoms(rx) ==
  IF rx = <<>> THEN <<>>
  ELSE IF Head(rx) = BSL /\ Len(rx) >= 2
    THEN <<[t |-> "lit", c |-> rx[2]]>> \o RegexAtoms(SubSeq(rx, 3, Len(rx)))
  ELSE IF StartsWith(rx, NotSlashStar)
    THEN <<[t |-> "notSlashStar", c |-> ""]>> \o RegexAtoms(SubSeq(rx, 6, Len(rx)))
  ELSE IF StartsWith(rx, <<".", "*">>)
    THEN <<[t |-> "anyStar", c |-> ""]>> \o RegexAtoms(SubSeq(rx, 3, Len(rx)))
  ELSE IF Head(rx) = "."
    THEN <<[t |-> "any", c |-> ""]>> \o RegexAtoms(Tail(rx))
  ELSE <<[t |-> "lit", c |-> Head(rx)]>> \o RegexAtoms(Tail(rx))

\* RegExp.prototype.test of ^atoms$ on s, from atom i and character j
RECURSIVE RegexMatchFrom(_, _, _, _)
RegexMatchFrom(atoms, i, s, j) ==
  IF i > Len(atoms) THEN j > Len(s)
  ELSE LET a == atoms[i] IN
    IF a.t = "lit" THEN j <= Len(s) /\ s[j] = a.c /\ RegexMatchFrom(atoms, i + 1, s, j + 1)
    ELSE IF a.t = "any" THEN j <= Len(s) /\ RegexMatchFrom(atoms, i + 1, s, j + 1)
    ELSE IF a.t = "anyStar"
      THEN \E k \in j..(Len(s) + 1) : RegexMatchFrom(atoms, i + 1, s, k)
    ELSE \E k \in j..(Len(s) + 1) :
           /\ \A m \in j..(k - 1) : s[m] # SLASH
           /\ RegexMatchFrom(atoms, i + 1, s, k)

globMatch(pattern, path) ==
  RegexMatchFrom(RegexAtoms(GlobRegexSource(pattern)), 1, path, 1)

\* ------------------------------------------------------------ names
S_data == <<"d", "a", "t", "a">>
S_a == <<"a">>
S_2026 == <<"2", "0", "2", "6">>
S_test_movie == <<"t", "e", "s", "t", "-", "m", "o", "v", "i", "e">>
S_meta_yaml == <<"m", "e", "t", "a", ".", "y", "a", "m", "l">>
S_meta_yml == <<"m", "e", "t", "a", ".", "y", "m", "l">>
S_index_md == <<"i", "n", "d", "e", "x", ".", "m", "d">>
S_relay == <<".", "r", "e", "l", "a", "y">>
S_hooks == <<"h", "o", "o", "k", "s">>
S_relay_yaml == <<".", "r", "e", "l", "a", "y", ".", "y", "a", "m", "l">>
S_pre_commit_mjs == <<"p", "r", "e", "-", "c", "o", "m", "m", "i", "t", ".", "m", "j", "s">>
S_pre_receive_mjs == <<"p", "r", "e", "-", "r", "e", "c", "e", "i", "v", "e", ".", "m", "j", "s">>
S_validation_mjs == <<"v", "a", "l", "i", "d", "a", "t", "i", "o", "n", ".", "m", "j", "s">>
S_unauthorized_file == <<"u", "n", "a", "u", "t", "h", "o", "r", "i", "z", "e", "d", ".", "f", "i", "l", "e">>
S_starstar == <<"*", "*">>

\* the two hook-script paths and the validation program's path
PreCommitHookPath == JoinPath(<<S_relay, S_pre_commit_mjs>>)
PreReceiveHookPath == JoinPath(<<S_relay, S_pre_receive_mjs>>)
ValidationPath == JoinPath(<<S_relay, S_validation_mjs>>)

\* the paths of the model's diffs
P_MetaA == JoinPath(<<S_data, S_a, S_meta_yaml>>)
P_TestMovie == JoinPath(<<S_data, S_2026, S_test_movie, S_meta_yaml>>)
KnownPaths ==
  {P_MetaA, P_TestMovie, S_unauthorized_file, PreCommitHookPath, PreReceiveHookPath, ValidationPath}

\* the patterns of isWhitelisted, in its order
WhitelistPatterns ==
  << JoinPath(<<S_data, S_starstar, S_meta_yaml>>),
     JoinPath(<<S_data, S_starstar, S_meta_yml>>),
     JoinPath(<<S_data, S_starstar, S_index_md>>),
     JoinPath(<<S_relay, S_starstar>>),
     JoinPath(<<S_hooks, S_starstar>>),
     S_relay_yaml >>

\* isWhitelisted and the two metadata patterns of validate, computed once
\* for the known paths
WhitelistTable ==
  [p \in KnownPaths |-> \E i \in 1..Len(WhitelistPatterns) : globMatch(WhitelistPatterns[i], p)]
MetaPatternTable ==
  [p \in KnownPaths |-> globMatch(WhitelistPatterns[1], p) \/ globMatch(WhitelistPatterns[2], p)]

isWhitelisted(p) ==
  IF p \in KnownPaths THEN WhitelistTable[p]
  ELSE \E i \in 1..Len(WhitelistPatterns) : globMatch(WhitelistPatterns[i], p)

\* ------------------------------------------------------------ documents
\* A JSON value: a string (its characters in s), a number, an array (its
\* elements in a) or an absent key.
JStr(s) == [t |-> "str", s |-> s, a |-> <<>>]
JNum(s) == [t |-> "num", s |-> s, a |-> <<>>]
JArr(a) == [t |-> "arr", s |-> <<>>, a |-> a]
JUndef == [t |-> "undef", s |-> <<>>, a |-> <<>>]

\* A parsed document: the three schema fields and the keys _created_at,
\* _updated_at, _branch and _meta_dir the document itself may carry (0 or
\* the empty string: the key is absent).
EmptyDoc ==
  [title |-> JUndef, release_date |-> JUndef, genre |-> JUndef,
   created |-> 0, updated |-> 0, branch |-> <<>>, metaDir |-> <<>>]

\* A blob at the new revision: absent (readFromTree returns null), a JSON
\* object text, or text that no parser accepts.
AbsentBlob == [kind |-> "absent", doc |-> EmptyDoc]
JsonBlob(doc) == [kind |-> "json", doc |-> doc]
GarbageBlob == [kind |-> "garbage", doc |-> EmptyDoc]
\* the JSON text null
NullBlob == [kind |-> "null", doc |-> EmptyDoc]

Digits == {"0", "1", "2", "3", "4", "5", "6", "7", "8", "9"}
Whitespace == {" ", "\t", "\n", "\r"}

\* the test of the title without its trim()
IsBlank_EmptyOnly(s) == s = <<>>

\* !s.trim()
IsBlank(s) == \A i \in 1..Len(s) : s[i] \in Whitespace

\* /^\d{4}-\d{2}-\d{2}$/.test(s)
IsDatePattern(s) ==
  /\ Len(s) = 10
  /\ \A i \in {1, 2, 3, 4, 6, 7, 9, 10} : s[i] \in Digits
  /\ s[5] = "-"
  /\ s[8] = "-"

\* ------------------------------------------------------------ changeset extraction
\* One record of the diff between the two revisions: its status token, its
\* paths (two for a rename or copy) and the blob the new revision holds at
\* its last path.
DiffRecord(status, paths, blob) == [status |-> status, paths |-> paths, blob |-> blob]

\* what git diff --name-status -z prints, split at NUL with empty parts dropped
RECURSIVE GitDiffParts(_)
GitDiffParts(records) ==
  IF records = <<>> THEN <<>>
  ELSE <<Head(records).status>> \o Head(records).paths \o GitDiffParts(Tail(records))

\* the loop of listChanged over the parts, two at a time
RECURSIVE listChangedFrom(_)
listChangedFrom(parts) ==
  IF Len(parts) < 2 THEN <<>>
  ELSE <<[status |-> parts[1][1], path |-> parts[2]]>> \o listChangedFrom(SubSeq(parts, 3, Len(parts)))

\* the files of an injected context: the paths present at the new revision
RECURSIVE ContextFiles(_)
ContextFiles(records) ==
  IF records = <<>> THEN <<>>
  ELSE LET r == Head(records) IN
    (IF r.blob.kind = "absent" THEN <<>> ELSE <<r.paths[Len(r.paths)]>>) \o ContextFiles(Tail(records))

\* listChanged: from the injected context when there is one, else from the diff
listChanged(records, viaContext) ==
  IF viaContext
    THEN [i \in 1..Len(ContextFiles(records)) |-> [status |-> "M", path |-> ContextFiles(records)[i]]]
    ELSE listChangedFrom(GitDiffParts(records))

\* readFromTree: the blob at path p in the new revision
readFromTree(records, p) ==
  LET S == {i \in 1..Len(records) : records[i].paths[Len(records[i].paths)] = p}
  IN IF S = {} THEN AbsentBlob ELSE records[CHOOSE i \in S : TRUE].blob

\* ------------------------------------------------------------ messages
\* One line of a message: what it says and the path or detail it names.
Line(tag, arg) == [tag |-> tag, arg |-> arg]

\* A verdict {ok, message}: ok is "true", "false" or "missing"; the message
\* is its lines (newline-joined in the code), empty when there is none.
Verdict(ok, message) == [ok |-> ok, message |-> message]
OkVerdict == Verdict("true", <<>>)

\* ------------------------------------------------------------ reference validation program
\* parseYamlLike: JSON.parse, else the key: value fallback, which always
\* yields an object (empty for text without key: value lines)
parseYamlLike(blob) == IF blob.kind = "json" THEN blob.doc ELSE EmptyDoc

\* decodeUtf8: null when the sandbox context has no TextDecoder
decodeUtf8(blob, hasTextDecoder) == hasTextDecoder

validateMetaYaml(blob, path, hasTextDecoder) ==
  IF blob.kind = "absent" THEN Verdict("false", <<Line("CannotRead", path)>>)
  ELSE IF ~decodeUtf8(blob, hasTextDecoder) THEN Verdict("false", <<Line("NotUtf8", path)>>)
  ELSE IF blob.kind = "null" THEN Verdict("false", <<Line("NotYamlJson", path)>>)
  ELSE LET doc == parseYamlLike(blob) IN
    IF doc.title.t # "str" \/ IsBlank(doc.title.s)
      THEN Verdict("false", <<Line("InvalidTitle", path)>>)
    ELSE IF doc.release_date.t # "str" \/ ~IsDatePattern(doc.release_date.s)
      THEN Verdict("false", <<Line("InvalidReleaseDate", path)>>)
    ELSE IF doc.genre.t # "arr" \/ \E i \in 1..Len(doc.genre.a) : doc.genre.a[i].t # "str"
      THEN Verdict("false", <<Line("InvalidGenre", path)>>)
    ELSE OkVerdict

IsMetaPattern(p) ==
  IF p \in KnownPaths THEN MetaPatternTable[p]
  ELSE globMatch(WhitelistPatterns[1], p) \/ globMatch(WhitelistPatterns[2], p)

\* the errors validate collects for the staged entries, in order;
\* api.readFile(p) is readFromTree on the new revision's records
RECURSIVE ValidateErrors(_, _, _)
ValidateErrors(staged, records, hasTextDecoder) ==
  IF staged = <<>> THEN <<>>
  ELSE LET p == Head(staged).path
           rest == ValidateErrors(Tail(staged), records, hasTextDecoder)
       IN IF ~isWhitelisted(p) THEN <<Line("PathNotAllowed", p)>> \o rest
          ELSE IF IsMetaPattern(p)
            THEN LET res == validateMetaYaml(readFromTree(records, p), p, hasTextDecoder)
                 IN IF res.ok # "true" THEN res.message \o rest ELSE rest
          ELSE rest

\* validate stopping at its first error
validate_FirstErrorOnly(staged, records, hasTextDecoder) ==
  LET errors == ValidateErrors(staged, records, hasTextDecoder)
  IN IF Len(errors) > 0 THEN Verdict("false", <<errors[1]>>) ELSE OkVerdict

validate(staged, records, hasTextDecoder) ==
  LET errors == ValidateErrors(staged, records, hasTextDecoder)
  IN IF Len(errors) > 0 THEN Verdict("false", errors) ELSE OkVerdict


\* ------------------------------------------------------------ sandbox
\* A validation program: whether .relay/validation.mjs exists at the new
\* revision, whether it compiles, what its top level does when run, and
\* what it leaves as validate, default and validationResult.
\* A function is named by what it does when called; "absent" is undefined
\* or another falsy value, "truthy" a truthy value that is neither a
\* function nor an object.  Each name can be a global of the script
\* (context.validate) or a property of the script's completion value
\* (result.validate); validate can also be module.exports.validate.
Script(present, compiles, top, validateFn, rValidate, mValidate, defaultFn, rDflt, validationResult, rVres) ==
  [present |-> present, compiles |-> compiles, top |-> top,
   validate |-> validateFn, rValidate |-> rValidate, mValidate |-> mValidate,
   dflt |-> defaultFn, rDflt |-> rDflt, vres |-> validationResult, rVres |-> rVres]

\* a program that sets globals only
Program(present, compiles, top, validateFn, defaultFn, validationResult) ==
  Script(present, compiles, top, validateFn, "absent", "absent", defaultFn, "absent",
         validationResult, "absent")

\* typeof x === 'function'
IsFunction(x) == x \notin {"absent", "truthy", "ok", "fail", "noOk", "okNotTrue"}

NoProgram == Program(FALSE, TRUE, "ok", "absent", "absent", "absent")
ReferenceProgram == Program(TRUE, TRUE, "ok", "reference", "absent", "absent")

\* what runValidationSandbox does: return a verdict, throw, or never return;
\* vm tells whether it created the sandbox context
Returned(v) == [how |-> "returned", verdict |-> v, vm |-> TRUE]
Threw(line) == [how |-> "threw", verdict |-> Verdict("none", <<line>>), vm |-> TRUE]
Hung == [how |-> "hung", verdict |-> Verdict("none", <<>>), vm |-> TRUE]
NotRun == [how |-> "notRun", verdict |-> Verdict("none", <<>>), vm |-> FALSE]
\* the early return when there is no program: { ok: true }
AllowedByDefault == [how |-> "returned", verdict |-> OkVerdict, vm |-> FALSE]

SandboxError(detail) == Line("validation.mjs error: ", <<detail>>)

\* the call validateFn(api) and what follows it inside the try block
PromiseLine == SandboxError("validation.mjs returned a Promise; async not supported")

\* a validationResult object, or the object a function returned, as a verdict
ObjectVerdict(shape) ==
  IF shape = "ok" THEN OkVerdict
  ELSE IF shape = "fail" THEN Verdict("false", <<Line("custom rule failed", <<>>)>>)
  ELSE IF shape = "noOk" THEN Verdict("missing", <<>>)
  ELSE Verdict("notTrue", <<>>)

\* the call with a returned Promise awaited: its eventual value is the verdict
CallValidate_AwaitsPromise(fn, changes, records, hasTextDecoder) ==
  IF fn = "reference" THEN Returned(validate(changes, records, hasTextDecoder))
  ELSE IF fn \in {"returnsOk", "returnsPromiseOfOk"} THEN Returned(ObjectVerdict("ok"))
  ELSE IF fn \in {"returnsFail", "returnsPromiseOfFail"} THEN Returned(ObjectVerdict("fail"))
  ELSE IF fn = "returnsNoOk" THEN Returned(ObjectVerdict("noOk"))
  ELSE IF fn = "returnsOkNotTrue" THEN Returned(ObjectVerdict("okNotTrue"))
  ELSE IF fn \in {"returnsFalse", "returnsNull", "returnsUndefined"} THEN Returned(OkVerdict)
  ELSE IF fn = "returnsTrue" THEN Returned(Verdict("missing", <<>>))
  ELSE IF fn = "throws" THEN Returned(Verdict("false", <<SandboxError("thrown by validate")>>))
  ELSE Hung

CallValidate(fn, changes, records, hasTextDecoder) ==
  IF fn = "reference" THEN Returned(validate(changes, records, hasTextDecoder))
  ELSE IF fn = "returnsOk" THEN Returned(ObjectVerdict("ok"))
  ELSE IF fn = "returnsFail" THEN Returned(ObjectVerdict("fail"))
  ELSE IF fn = "returnsNoOk" THEN Returned(ObjectVerdict("noOk"))
  ELSE IF fn = "returnsOkNotTrue" THEN Returned(ObjectVerdict("okNotTrue"))
  \* vr || { ok: true }
  ELSE IF fn \in {"returnsFalse", "returnsNull", "returnsUndefined"} THEN Returned(OkVerdict)
  \* a truthy value that is no object has no ok
  ELSE IF fn = "returnsTrue" THEN Returned(Verdict("missing", <<>>))
  ELSE IF fn \in {"returnsPromiseOfOk", "returnsPromiseOfFail"}
    THEN Returned(Verdict("false", <<PromiseLine>>))
  ELSE IF fn = "throws" THEN Returned(Verdict("false", <<SandboxError("thrown by validate")>>))
  ELSE Hung

\* the entry point the try block settles on: "none", or the function called
ResolveEntry(program) ==
  LET v1 == IF program.validate # "absent" THEN program.validate ELSE program.rValidate
      v2 == IF v1 = "absent" /\ IsFunction(program.mValidate) THEN program.mValidate ELSE v1
      v3 == IF IsFunction(v2) THEN v2
            ELSE IF program.dflt # "absent" THEN program.dflt ELSE program.rDflt
  IN IF IsFunction(v3) THEN v3 ELSE "none"

\* context.validationResult || result?.validationResult
ResolveResult(program) == IF program.vres # "absent" THEN program.vres ELSE program.rVres

\* the sandbox once there is a program: new vm.Script, then the try block
RunScript(program, changes, records, hasTextDecoder) ==
  IF ~program.compiles THEN Threw(Line("SyntaxError", <<>>))
  ELSE IF program.top = "loop"
    THEN Returned(Verdict("false", <<SandboxError("Script execution timed out after 2000ms")>>))
  ELSE IF program.top = "throw"
    THEN Returned(Verdict("false", <<SandboxError("thrown at top level")>>))
  ELSE IF ResolveEntry(program) # "none"
    THEN CallValidate(ResolveEntry(program), changes, records, hasTextDecoder)
  ELSE IF ResolveResult(program) \in {"ok", "fail", "noOk", "okNotTrue"}
    THEN Returned(ObjectVerdict(ResolveResult(program)))
  ELSE Returned(OkVerdict)

\* the sandbox denying by default when there is no program
runValidationSandbox_DenyByDefault(program, changes, records, hasTextDecoder) ==
  IF ~program.present
    THEN [how |-> "returned", verdict |-> Verdict("false", <<Line("validation failed", <<>>)>>),
          vm |-> FALSE]
  ELSE RunScript(program, changes, records, hasTextDecoder)

runValidationSandbox(program, changes, records, hasTextDecoder) ==
  IF ~program.present THEN AllowedByDefault
  ELSE RunScript(program, changes, records, hasTextDecoder)

\* the program read from the old revision instead
ValidationCode_OldRevision(i) == i.oldProgram

\* readFromTree('.relay/validation.mjs'): the program at the new revision
ValidationCode(i) == i.program

\* ------------------------------------------------------------ signature gate
\* What signature verification meets: whether git verify-commit accepts the
\* commit, where the new revision keeps public-key files ("relay" for
\* .relay/.ssh, "ssh" for .ssh, "none"), whether verification against the
\* list built from them accepts the commit, and whether the module scope
\* the script runs in binds require.
Signature(native, keys, sshOk, requireDefined) ==
  [native |-> native, keys |-> keys, sshOk |-> sshOk, requireDefined |-> requireDefined]

\* collectAllowedSigners: null without key blobs, else the temporary file's
\* name; require('os') throws where require is not bound
collectAllowedSigners(sig) ==
  IF sig.keys = "none" THEN "null"
  ELSE IF ~sig.requireDefined THEN "throw"
  ELSE "tmp"

\* verifyCommitWithAllowedSigners: its result, and whether the temporary
\* file was written and whether it is left behind
\* verification whose unlink sits after the try block instead of in finally:
\* skipped when git verify-commit throws
verifyCommitWithAllowedSigners_UnlinkOnSuccess(sig) ==
  IF sig.native THEN [res |-> "true", wrote |-> FALSE, left |-> FALSE]
  ELSE IF sig.keys = "none" THEN [res |-> "false", wrote |-> FALSE, left |-> FALSE]
  ELSE IF ~sig.requireDefined THEN [res |-> "throw", wrote |-> FALSE, left |-> FALSE]
  ELSE [res |-> IF sig.sshOk THEN "true" ELSE "false", wrote |-> TRUE, left |-> ~sig.sshOk]

verifyCommitWithAllowedSigners(sig) ==
  IF sig.native THEN [res |-> "true", wrote |-> FALSE, left |-> FALSE]
  ELSE LET allowed == collectAllowedSigners(sig)
           \* fs.writeFileSync(tmp, content) in collectAllowedSigners
           wrote == allowed = "tmp"
           \* finally { if (allowed) fs.unlinkSync(allowed) }
           unlinked == allowed = "tmp"
       IN
    IF allowed = "throw" THEN [res |-> "throw", wrote |-> FALSE, left |-> FALSE]
    ELSE IF allowed = "null" THEN [res |-> "false", wrote |-> FALSE, left |-> FALSE]
    ELSE [res |-> IF sig.sshOk THEN "true" ELSE "false", wrote |-> wrote, left |-> wrote /\ ~unlinked]

\* ------------------------------------------------------------ index projector
\* An entry of relay_index.json: the document's fields and the system
\* fields.  A null entry is what JSON.stringify writes for a hole.
NullItem == [null |-> TRUE]
IsNull(it) == "null" \in DOMAIN it

\* doc: the document's own keys spread first, the system fields over them,
\* _created_at stamped when the document has none
\* the entry without the stamp of a missing _created_at
IndexEntry_NoCreatedStamp(doc, branch, metaDir, now) ==
  [_branch |-> branch, _meta_dir |-> metaDir, _updated_at |-> now, _created_at |-> doc.created,
   title |-> doc.title, release_date |-> doc.release_date, genre |-> doc.genre]

\* the entry with the document's keys spread over the system fields
IndexEntry_DocumentWins(doc, branch, metaDir, now) ==
  [_branch |-> IF doc.branch # <<>> THEN doc.branch ELSE branch,
   _meta_dir |-> IF doc.metaDir # <<>> THEN doc.metaDir ELSE metaDir,
   _updated_at |-> IF doc.updated # 0 THEN doc.updated ELSE now,
   _created_at |-> IF doc.created # 0 THEN doc.created ELSE now,
   title |-> doc.title, release_date |-> doc.release_date, genre |-> doc.genre]

IndexEntry(doc, branch, metaDir, now) ==
  LET json == [_branch |-> doc.branch, _meta_dir |-> doc.metaDir, _updated_at |-> doc.updated,
               _created_at |-> doc.created,
               title |-> doc.title, release_date |-> doc.release_date, genre |-> doc.genre]
      spread == [json EXCEPT !._branch = branch, !._meta_dir = metaDir, !._updated_at = now]
  IN IF spread._created_at = 0 THEN [spread EXCEPT !._created_at = now] ELSE spread

\* relay_index.json: absent, or an object with the items array
NoIndexFile == [exists |-> FALSE, items |-> <<>>]
IndexFile(items) == [exists |-> TRUE, items |-> items]

\* key(branch, metaDir): `${branch}::${metaDir}`
key(branch, metaDir) == branch \o <<":", ":">> \o metaDir

\* the pos map after the loop over the items read from the file
\* (positions are the array's, from 0; a later entry of a key wins)
RECURSIVE BuildPos(_, _)
BuildPos(items, n) ==
  IF n = 0 THEN <<>>
  ELSE LET it == items[n]
           before == BuildPos(items, n - 1)
       IN IF IsNull(it) THEN before
          ELSE LET k == key(it._branch, it._meta_dir) IN
            [x \in (DOMAIN before) \cup {k} |-> IF x = k THEN n - 1 ELSE before[x]]

PosHas(pos, k) == k \in DOMAIN pos

\* items.splice(i, 1)
Splice(items, i) ==
  IF i >= Len(items) THEN items
  ELSE SubSeq(items, 1, i) \o SubSeq(items, i + 2, Len(items))

\* items[i] = doc: replaces, appends, or leaves holes before position i
SetAt(items, i, doc) ==
  [j \in 1..(IF i + 1 > Len(items) THEN i + 1 ELSE Len(items)) |->
     IF j = i + 1 THEN doc ELSE IF j <= Len(items) THEN items[j] ELSE NullItem]

\* the test that selects metadata files
IsMetaFile(p) ==
  \/ EndsWith(p, <<SLASH>> \o S_meta_yaml)
  \/ EndsWith(p, <<SLASH>> \o S_meta_yml)
  \/ EndsWith(p, S_meta_yaml)
  \/ EndsWith(p, S_meta_yml)

\* yamlToJson: the parsed document, or null
yamlToJson(blob) == IF blob.kind = "json" THEN blob.doc ELSE EmptyDoc
\* yamlToJson taken to succeed on every content
yamlToJsonIsNull_Never(blob) == FALSE
yamlToJsonIsNull(blob) == blob.kind # "json"

\* the loop of upsertIndex over the changes; state is <<items, pos>>
RECURSIVE UpsertLoop(_, _, _, _, _, _)
UpsertLoop(changes, items, pos, records, branch, now) ==
  IF changes = <<>> THEN items
  ELSE LET ch == Head(changes)
           rest == Tail(changes)
           metaDir == Dirname(ch.path)
           k == key(branch, metaDir)
       IN IF ~IsMetaFile(ch.path) THEN UpsertLoop(rest, items, pos, records, branch, now)
          ELSE IF ch.status = "D"
            THEN UpsertLoop(rest, IF PosHas(pos, k) THEN Splice(items, pos[k]) ELSE items,
                            pos, records, branch, now)
          ELSE IF readFromTree(records, ch.path).kind = "absent" \/ yamlToJsonIsNull(readFromTree(records, ch.path))
            THEN UpsertLoop(rest, items, pos, records, branch, now)
          ELSE LET doc == IndexEntry(yamlToJson(readFromTree(records, ch.path)), branch, metaDir, now)
               IN IF PosHas(pos, k)
                    THEN UpsertLoop(rest, SetAt(items, pos[k], doc), pos, records, branch, now)
                    ELSE UpsertLoop(rest, Append(items, doc),
                           [x \in (DOMAIN pos) \cup {k} |-> IF x = k THEN Len(items) ELSE pos[x]],
                           records, branch, now)

\* upsertIndex: the file it writes
upsertIndex(file, changes, records, branch, now) ==
  LET items == IF file.exists THEN file.items ELSE <<>>
  IN IndexFile(UpsertLoop(changes, items, BuildPos(items, Len(items)), records, branch, now))


\* ------------------------------------------------------------ hook scripts
\* What one run of a hook script leaves behind: its exit code (-1 while the
\* process never exits), what it printed, the steps it took in order, the
\* ChangeEntry list, the sandbox's result, the results of the signature
\* verifications it made, and relay_index.json as it was when the run began.
Outcome(exit, stdout, stderr, trace, changes, result, verifies, before) ==
  [exit |-> exit, stdout |-> stdout, stderr |-> stderr, trace |-> trace,
   changes |-> changes, result |-> result, verifies |-> verifies, indexBefore |-> before]

Run(outcome, file) == [out |-> outcome, file |-> file]

Took(outcome, step) == \E n \in 1..Len(outcome.trace) : outcome.trace[n] = step

\* the hook-path test looking at the first entry only
ChangesHook_FirstOnly(changes) ==
  /\ Len(changes) > 0
  /\ changes[1].path \in {PreCommitHookPath, PreReceiveHookPath}

\* the test of requireSignedIfChangingHooks
ChangesHook(changes) ==
  \E n \in 1..Len(changes) : changes[n].path \in {PreCommitHookPath, PreReceiveHookPath}

\* the test of the verdict with its sense inverted (result.ok === true)
VerdictFailed_Inverted(verdict) == verdict.ok = "true"

\* result.ok === false
VerdictFailed(verdict) == verdict.ok = "false"

\* result?.message || 'validation failed'
FailureMessage(verdict) ==
  IF verdict.message = <<>> THEN <<Line("validation failed", <<>>)>> ELSE verdict.message

MissingEnvLine(script) == Line("missing required env (GIT_DIR, NEW_COMMIT)", <<script>>)
GitErrorLine == Line("Command failed: git diff", <<>>)
RequireErrorLine == Line("require is not defined", <<>>)
UnsignedHookLine ==
  Line("Commit modifies .relay hook scripts but is not signed (git verify-commit failed).", <<>>)
PassedLine(script) == Line("validation passed", <<script>>)

\* main calling upsertIndex before it looks at the verdict
MaintainIndex_Always(o, file, i, now) ==
  IF o.changes # <<>> THEN upsertIndex(file, o.changes, i.records, i.branch, now) ELSE file

\* the upsertIndex call of main: relay_index.json after a run whose steps
\* are in outcome o
MaintainIndex(o, file, i, now) ==
  IF Took(o, "upsertIndex") THEN upsertIndex(file, o.changes, i.records, i.branch, now) ELSE file

\* pre-receive.mjs: the environment check and main inside its try block.
\* An exception out of main prints its message and exits 1.
PreReceiveOutcome(i, file) ==
  LET changes == listChanged(i.records, FALSE)
      hook == ChangesHook(changes)
      v == verifyCommitWithAllowedSigners(i.sig)
      sb == runValidationSandbox(ValidationCode(i), changes, i.records, FALSE)
      failed == VerdictFailed(sb.verdict)
      t1 == <<"listChanged">> \o (IF hook THEN <<"verify">> ELSE <<>>)
      v1 == IF hook THEN <<v>> ELSE <<>>
      t2 == t1 \o <<"sandbox">>
      t3 == t2 \o (IF failed THEN <<"verify">> ELSE <<>>)
      v3 == v1 \o (IF failed THEN <<v>> ELSE <<>>)
  IN
  IF ~i.gitDir \/ ~i.newCommit
    THEN Outcome(2, <<>>, <<MissingEnvLine("pre-receive.mjs")>>, <<>>, <<>>, NotRun, <<>>, file)
  ELSE IF ~i.diffOk
    THEN Outcome(1, <<>>, <<GitErrorLine>>, <<"listChanged">>, <<>>, NotRun, <<>>, file)
  ELSE IF hook /\ v.res = "throw"
    THEN Outcome(1, <<>>, <<RequireErrorLine>>, t1, changes, NotRun, v1, file)
  ELSE IF hook /\ v.res = "false"
    THEN Outcome(1, <<>>, <<UnsignedHookLine>>, t1, changes, NotRun, v1, file)
  ELSE IF sb.how = "threw"
    THEN Outcome(1, <<>>, sb.verdict.message, t2, changes, sb, v1, file)
  ELSE IF sb.how = "hung"
    THEN Outcome(-1, <<>>, <<>>, t2, changes, sb, v1, file)
  ELSE IF failed /\ v.res = "throw"
    THEN Outcome(1, <<>>, <<RequireErrorLine>>, t3, changes, sb, v3, file)
  ELSE IF failed /\ v.res = "false"
    THEN Outcome(1, <<>>, FailureMessage(sb.verdict), t3, changes, sb, v3, file)
  ELSE Outcome(0, <<PassedLine("pre-receive")>>, <<>>, t3 \o <<"upsertIndex", "log">>,
               changes, sb, v3, file)

PreReceiveMain(i, file, now) ==
  CHOOSE r \in {Run(o, MaintainIndex(o, file, i, now)) : o \in {PreReceiveOutcome(i, file)}} : TRUE

\* hooks/server pre-commit.mjs, on lib/utils.mjs and lib/validation-util.mjs
PreCommitOutcome(i, file) ==
  LET changes == listChanged(i.records, i.viaContext)
      sb == runValidationSandbox(ValidationCode(i), changes, i.records, TRUE)
      t2 == <<"listChanged", "sandbox">>
  IN
  IF ~i.gitDir \/ ~i.newCommit
    THEN Outcome(0, <<>>, <<>>, <<>>, <<>>, NotRun, <<>>, file)
  ELSE IF ~i.viaContext /\ ~i.diffOk
    THEN Outcome(1, <<>>, <<GitErrorLine>>, <<"listChanged">>, <<>>, NotRun, <<>>, file)
  ELSE IF sb.how = "threw"
    THEN Outcome(1, <<>>, sb.verdict.message, t2, changes, sb, <<>>, file)
  ELSE IF sb.how = "hung"
    THEN Outcome(-1, <<>>, <<>>, t2, changes, sb, <<>>, file)
  ELSE IF VerdictFailed(sb.verdict)
    THEN Outcome(1, <<>>, FailureMessage(sb.verdict), t2, changes, sb, <<>>, file)
  ELSE Outcome(0, <<PassedLine("pre-commit")>>, <<>>, t2 \o <<"upsertIndex", "log">>,
               changes, sb, <<>>, file)

PreCommitMain(i, file, now) ==
  CHOOSE r \in {Run(o, MaintainIndex(o, file, i, now)) : o \in {PreCommitOutcome(i, file)}} : TRUE

\* .relay pre-commit.mjs, on .relay/lib/utils.mjs; it keeps no index
RelayPreCommitOutcome(i, file) ==
  LET changes == listChanged(i.records, FALSE)
      sb == runValidationSandbox(ValidationCode(i), changes, i.records, TRUE)
      t2 == <<"listChanged", "sandbox">>
  IN
  IF ~i.gitDir \/ ~i.newCommit
    THEN Outcome(2, <<>>, <<MissingEnvLine("pre-commit.mjs")>>, <<>>, <<>>, NotRun, <<>>, file)
  ELSE IF ~i.diffOk
    THEN Outcome(1, <<>>, <<GitErrorLine>>, <<"listChanged">>, <<>>, NotRun, <<>>, file)
  ELSE IF sb.how = "threw"
    THEN Outcome(1, <<>>, sb.verdict.message, t2, changes, sb, <<>>, file)
  ELSE IF sb.how = "hung"
    THEN Outcome(-1, <<>>, <<>>, t2, changes, sb, <<>>, file)
  ELSE IF VerdictFailed(sb.verdict)
    THEN Outcome(1, <<>>, FailureMessage(sb.verdict), t2, changes, sb, <<>>, file)
  ELSE Outcome(0, <<PassedLine("pre-commit")>>, <<>>, t2 \o <<"log">>, changes, sb, <<>>, file)

RelayPreCommitMain(i, file, now) ==
  CHOOSE r \in {Run(o, MaintainIndex(o, file, i, now)) : o \in {RelayPreCommitOutcome(i, file)}} : TRUE

\* ------------------------------------------------------------ invocations
\* What the caller supplies to one run: the hook script, whether GIT_DIR and
\* NEW_COMMIT are set, BRANCH, whether git can diff the two revisions, the
\* diff's records, whether a context with files is injected on stdin, the
\* validation program at the new revision and the commit's signature.
\* oldProgram is the validation program at the old revision, none unless
\* said otherwise.
Invocation(hook, gitDir, newCommit, branch, diffOk, records, viaContext, program, sig) ==
  [hook |-> hook, gitDir |-> gitDir, newCommit |-> newCommit, branch |-> branch,
   diffOk |-> diffOk, records |-> records, viaContext |-> viaContext,
   program |-> program, sig |-> sig, oldProgram |-> NoProgram]

B_main == <<"m", "a", "i", "n">>
B_dev == <<"d", "e", "v">>

\* the document of the integration test
TestMovieDoc ==
  [title |-> JStr(<<"T", "e", "s", "t", " ", "M", "o", "v", "i", "e">>),
   release_date |-> JStr(<<"2", "0", "2", "6", "-", "0", "1", "-", "0", "6">>),
   genre |-> JArr(<<JStr(<<"A", "c", "t", "i", "o", "n">>)>>),
   created |-> 0, updated |-> 0, branch |-> <<>>, metaDir |-> <<>>]

R_ModMetaA == DiffRecord(<<"M">>, <<P_MetaA>>, JsonBlob(TestMovieDoc))
R_DelMetaA == DiffRecord(<<"D">>, <<P_MetaA>>, AbsentBlob)
R_AddTestMovie == DiffRecord(<<"A">>, <<P_TestMovie>>, JsonBlob(TestMovieDoc))
R_ModUnauthorized == DiffRecord(<<"M">>, <<S_unauthorized_file>>, GarbageBlob)
R_ModPreReceive == DiffRecord(<<"M">>, <<PreReceiveHookPath>>, GarbageBlob)
R_ModPreCommit == DiffRecord(<<"M">>, <<PreCommitHookPath>>, GarbageBlob)
R_AddValidation == DiffRecord(<<"A">>, <<ValidationPath>>, GarbageBlob)

DiffRecords ==
  {R_ModMetaA, R_DelMetaA, R_AddTestMovie, R_ModUnauthorized, R_ModPreReceive, R_AddValidation}

LastPath(r) == r.paths[Len(r.paths)]
HasPath(records, p) == \E n \in 1..Len(records) : LastPath(records[n]) = p

\* the diffs of at most n records, no path twice
RECURSIVE DiffsUpTo(_)
DiffsUpTo(n) ==
  IF n = 0 THEN {<<>>}
  ELSE LET shorter == DiffsUpTo(n - 1)
       IN shorter \cup {Append(d, r) : <<d, r>> \in
                          {x \in shorter \X DiffRecords : ~HasPath(x[1], LastPath(x[2]))}}

\* the diffs of the runs: those, the diff of the other hook script alone
\* and the removal of the test movie's metadata file alone
Diffs ==
  DiffsUpTo(MaxChanges) \cup {<<R_ModPreCommit>>, <<DiffRecord(<<"D">>, <<P_TestMovie>>, AbsentBlob)>>}

\* programs whose verdict depends on the changes
PolicyPrograms == {NoProgram, ReferenceProgram}

\* programs that fail to load, run away or throw, whatever the changes
FaultyPrograms ==
  { Program(TRUE, FALSE, "ok", "absent", "absent", "absent"),
    Program(TRUE, TRUE, "loop", "absent", "absent", "absent"),
    Program(TRUE, TRUE, "throw", "absent", "absent", "absent"),
    Program(TRUE, TRUE, "ok", "loops", "absent", "absent"),
    Program(TRUE, TRUE, "ok", "throws", "absent", "absent") }

Unsigned == Signature(FALSE, "none", FALSE, FALSE)
NativeSigned == Signature(TRUE, "none", FALSE, FALSE)
Signatures ==
  {Unsigned, NativeSigned, Signature(FALSE, "ssh", TRUE, TRUE)}
    \cup {Signature(FALSE, "relay", s, r) : s \in BOOLEAN, r \in BOOLEAN}

\* a diff that carries .relay/validation.mjs comes with a program
Consistent(records, program) == HasPath(records, ValidationPath) => program.present

\* runs stopped by their environment
BrokenInvocations(hook) ==
  {Invocation(hook, e[1], e[2], B_main, e[3], <<R_ModMetaA>>, FALSE, NoProgram, Unsigned) :
     e \in {<<FALSE, TRUE, TRUE>>, <<TRUE, FALSE, TRUE>>, <<TRUE, TRUE, FALSE>>}}

\* runs on branch main: every diff with the policy programs, the diffs of
\* at most one record with the faulty ones
GateInvocations(hook, sigs, contexts) ==
  {Invocation(hook, TRUE, TRUE, B_main, TRUE, x[1][1], x[3], x[1][2], x[2]) :
     x \in {y \in ((Diffs \X PolicyPrograms) \cup (DiffsUpTo(1) \X FaultyPrograms))
                    \X sigs \X contexts : Consistent(y[1][1], y[1][2])}}
\* runs on the other branch, without a program
BranchInvocations(hook) ==
  {Invocation(hook, TRUE, TRUE, B_dev, TRUE, d, FALSE, NoProgram, Unsigned) : d \in DiffsUpTo(1)}

PreReceiveInvocations ==
  BrokenInvocations("pre-receive") \cup GateInvocations("pre-receive", Signatures, {FALSE})
    \cup BranchInvocations("pre-receive")
PreCommitInvocations ==
  BrokenInvocations("pre-commit")
    \cup GateInvocations("pre-commit", {Unsigned, NativeSigned}, BOOLEAN)
RelayPreCommitInvocations ==
  BrokenInvocations("relay-pre-commit")
    \cup GateInvocations("relay-pre-commit", {Unsigned, NativeSigned}, {FALSE})

\* ------------------------------------------------------------ state
VARIABLES
  indexFile,  \* relay_index.json under GIT_DIR
  clock,      \* the time, advanced by every run
  pc,         \* "idle", "exited" (a run has ended) or "hung" (it never ends)
  inv,        \* the invocation of the run that last began
  out,        \* what that run left behind
  history,    \* which keys a delete has removed, and which the last run recreated
  call        \* a function applied on its own: its name, arguments and result

vars == <<indexFile, clock, pc, inv, out, history, call>>

NoInvocation == Invocation("none", FALSE, FALSE, <<>>, FALSE, <<>>, FALSE, NoProgram, Unsigned)
NoOutcome == Outcome(0, <<>>, <<>>, <<>>, <<>>, NotRun, <<>>, NoIndexFile)

NoHistory == [removed |-> {}, recreated |-> {}]
NoCall == [fn |-> "none", done |-> FALSE]

Init ==
  /\ indexFile = NoIndexFile
  /\ clock = 0
  /\ pc = "idle"
  /\ inv = NoInvocation
  /\ out = NoOutcome
  /\ history = NoHistory
  /\ call = NoCall

\* the (_branch, _meta_dir) pairs of the entries of relay_index.json
EntryKeys(file) ==
  {<<file.items[n]._branch, file.items[n]._meta_dir>> :
     n \in {m \in 1..Len(file.items) : ~IsNull(file.items[m])}}

\* the history after a run on invocation i that turned relay_index.json
\* from before into after: the keys a Deleted entry of the run removed
\* join the removed ones, the keys the file now holds leave them, and the
\* removed keys the run brought back are the recreated ones
Remember(h, i, changes, before, after) ==
  LET deleted == {k \in EntryKeys(before) \ EntryKeys(after) :
                    \E n \in 1..Len(changes) :
                      changes[n].status = "D" /\ k = <<i.branch, Dirname(changes[n].path)>>}
  IN [removed |-> (h.removed \cup deleted) \ EntryKeys(after),
      recreated |-> (EntryKeys(after) \ EntryKeys(before)) \cap h.removed]

\* a run of a hook script, from the process's start to its end
Finish(i, r) ==
  /\ inv' = i
  /\ out' = r.out
  /\ indexFile' = r.file
  /\ clock' = clock + 1
  /\ pc' = IF r.out.exit = -1 THEN "hung" ELSE "exited"
  /\ history' = Remember(history, i, r.out.changes, indexFile, r.file)
  /\ UNCHANGED call

PreReceive(i) ==
  /\ pc = "idle"
  /\ clock < MaxInvocations
  /\ \E r \in {PreReceiveMain(i, indexFile, clock + 1)} : Finish(i, r)

PreCommit(i) ==
  /\ pc = "idle"
  /\ clock < MaxInvocations
  /\ \E r \in {PreCommitMain(i, indexFile, clock + 1)} : Finish(i, r)

RelayPreCommit(i) ==
  /\ pc = "idle"
  /\ clock < MaxInvocations
  /\ \E r \in {RelayPreCommitMain(i, indexFile, clock + 1)} : Finish(i, r)

\* the process is gone; the next run starts from the files alone
ProcessExit ==
  /\ pc = "exited"
  /\ pc' = "idle"
  /\ inv' = NoInvocation
  /\ out' = NoOutcome
  /\ history' = [history EXCEPT !.recreated = {}]
  /\ UNCHANGED <<indexFile, clock, call>>

Next ==
  \/ \E i \in PreReceiveInvocations : PreReceive(i)
  \/ \E i \in PreCommitInvocations : PreCommit(i)
  \/ \E i \in RelayPreCommitInvocations : RelayPreCommit(i)
  \/ ProcessExit

Spec == Init /\ [][Next]_vars

\* ------------------------------------------------------------ runs that only maintain the index
\* a document that sets the system fields itself
StampedDoc ==
  [TestMovieDoc EXCEPT !.created = 7, !.updated = 7, !.branch = B_dev, !.metaDir = <<"x">>]

\* metadata changes: those of directory data/a and of the test movie, a
\* document with its own system fields, a file whose name only ends in
\* meta.yaml, a metadata file no parser accepts and one that cannot be read
IndexRecords ==
  {R_ModMetaA, R_DelMetaA, R_AddTestMovie,
   DiffRecord(<<"M">>, <<P_MetaA>>, JsonBlob(StampedDoc)),
   DiffRecord(<<"A">>, <<JoinPath(<<S_data, <<"b">>, <<"n", "o", "t">> \o S_meta_yaml>>)>>,
              JsonBlob(TestMovieDoc)),
   DiffRecord(<<"M">>, <<JoinPath(<<S_data, <<"b">>, S_meta_yaml>>)>>, GarbageBlob),
   DiffRecord(<<"M">>, <<JoinPath(<<S_data, <<"b">>, S_meta_yaml>>)>>, AbsentBlob)}

\* the diffs of at most n of these records, no path twice
RECURSIVE IndexDiffs(_)
IndexDiffs(n) ==
  IF n = 0 THEN {<<>>}
  ELSE IndexDiffs(n - 1) \cup
         {Append(x[1], x[2]) : x \in
            {y \in IndexDiffs(n - 1) \X IndexRecords : ~HasPath(y[1], LastPath(y[2]))}}

\* unsigned receive-time runs without a validation program: these diffs on
\* main, and on dev the change and the removal of data/a/meta.yaml
IndexInvocations ==
  {Invocation("pre-receive", TRUE, TRUE, x[1], TRUE, x[2], FALSE, NoProgram, Unsigned) :
     x \in ({B_main} \X IndexDiffs(MaxChanges)) \cup ({B_dev} \X {<<R_ModMetaA>>, <<R_DelMetaA>>})}

IndexRun(i) ==
  /\ pc = "idle"
  /\ clock < MaxRuns
  /\ \E r \in {PreReceiveMain(i, indexFile, clock + 1)} : Finish(i, r)

NextIndex ==
  \/ \E i \in IndexInvocations : IndexRun(i)
  \/ ProcessExit

IndexSpec == Init /\ [][NextIndex]_vars

\* ------------------------------------------------------------ runs on programs of every verdict shape
\* a program that accepts, one that rejects, and those whose validate or
\* validationResult gives every other shape of value
VerdictPrograms ==
  {Program(TRUE, TRUE, "ok", f, "absent", "absent") : f \in {"returnsOk", "returnsFail"}}
    \cup {Program(TRUE, TRUE, "ok", "absent", "absent", "fail")}
    \cup {Program(TRUE, TRUE, "ok", f, "absent", "absent") :
           f \in {"returnsNoOk", "returnsOkNotTrue", "returnsFalse", "returnsNull", "returnsUndefined",
                  "returnsTrue", "returnsPromiseOfOk", "returnsPromiseOfFail", "throws"}}
    \cup {Program(TRUE, TRUE, "ok", "absent", "absent", r) : r \in {"noOk", "okNotTrue"}}

\* changesets that add, replace or delete .relay/validation.mjs, with the
\* program of the new revision and that of the old one
ProgramChanges ==
  LET accepts == Program(TRUE, TRUE, "ok", "returnsOk", "absent", "absent")
      rejects == Program(TRUE, TRUE, "ok", "returnsFail", "absent", "absent")
      Change(s) == DiffRecord(<<s>>, <<ValidationPath>>, IF s = "D" THEN AbsentBlob ELSE GarbageBlob)
  IN ({<<Change("A")>>, <<R_ModMetaA, Change("A")>>} \X {accepts, rejects} \X {NoProgram})
       \cup ({<<Change("M")>>} \X {accepts, rejects} \X {accepts, rejects})
       \cup ({<<Change("D")>>, <<R_ModMetaA, Change("D")>>} \X {NoProgram} \X {accepts, rejects})

VerdictInvocations(hook) ==
  {Invocation(hook, TRUE, TRUE, B_main, TRUE, x[1], FALSE, x[2], x[3]) :
     x \in {<<R_ModMetaA>>, <<R_AddTestMovie>>} \X VerdictPrograms \X {Unsigned, NativeSigned}}
    \cup {[Invocation(hook, TRUE, TRUE, B_main, TRUE, x[1][1], x[3], x[1][2], x[2])
             EXCEPT !.oldProgram = x[1][3]] :
            x \in ProgramChanges \X {Unsigned, NativeSigned}
                    \X (IF hook = "pre-commit" THEN BOOLEAN ELSE {FALSE})}

NextVerdict ==
  \/ \E i \in VerdictInvocations("pre-receive") : PreReceive(i)
  \/ \E i \in VerdictInvocations("pre-commit") : PreCommit(i)
  \/ \E i \in VerdictInvocations("relay-pre-commit") : RelayPreCommit(i)
  \/ ProcessExit

VerdictSpec == Init /\ [][NextVerdict]_vars

\* ------------------------------------------------------------ functions applied on their own
\* the paths of one to n segments, each segment one of four names
RECURSIVE SegmentLists(_)
SegmentLists(n) ==
  IF n = 0 THEN {<<>>}
  ELSE SegmentLists(n - 1) \cup
         {Append(l, s) : <<l, s>> \in
            {x \in SegmentLists(n - 1) \X {S_data, S_a, S_meta_yaml, S_relay} : Len(x[1]) = n - 1}}

\* the patterns of isWhitelisted, and one with a single *
GlobPatterns ==
  {WhitelistPatterns[n] : n \in 1..Len(WhitelistPatterns)} \cup {JoinPath(<<S_data, <<"*">>, S_meta_yaml>>)}

GlobCalls ==
  {[fn |-> "globMatch", done |-> FALSE, pattern |-> x[1], path |-> JoinPath(x[2]), res |-> FALSE] :
     x \in GlobPatterns \X (SegmentLists(MaxSegments) \ {<<>>})}

\* metadata documents over a few values of each schema field
CallBlobs ==
  LET titles == {JUndef, JNum(<<"7">>), JStr(<<>>), JStr(<<" ", " ">>), JStr(<<"T">>)}
      dates ==
        {JUndef, JNum(<<"2", "0", "2", "4">>)} \cup
          {JStr(d) : d \in {<<"2", "0", "2", "4", "-", "0", "1", "-", "1", "5">>,
                            <<"2", "0", "2", "4", "-", "0", "2", "-", "3", "0">>,
                            <<"2", "0", "2", "4", "/", "0", "1", "/", "1", "5">>,
                            <<"1", "5", "-", "0", "1", "-", "2", "0", "2", "4">>,
                            <<"2", "0", "2", "4", "-", "1", "-", "1", "5">>,
                            <<"2", "0", "2", "4", "-", "0", "1", "-", "1", "5", "0">>}}
      genres ==
        {JUndef, JStr(<<"A">>), JArr(<<>>), JArr(<<JStr(<<"A">>), JStr(<<"D">>)>>),
         JArr(<<JNum(<<"1">>), JNum(<<"2">>)>>), JArr(<<JStr(<<"A">>), JNum(<<"2">>)>>)}
  IN {AbsentBlob, GarbageBlob, NullBlob} \cup
       {JsonBlob([EmptyDoc EXCEPT !.title = x[1], !.release_date = x[2], !.genre = x[3]]) :
          x \in titles \X dates \X genres}

MetaCalls ==
  {[fn |-> "validateMetaYaml", done |-> FALSE, blob |-> x[1], path |-> P_MetaA,
    hasTextDecoder |-> x[2], res |-> OkVerdict] : x \in CallBlobs \X BOOLEAN}

\* programs that leave any mix of values under the names the sandbox looks up
EntryPrograms ==
  LET slots == {"absent", "truthy", "returnsOk", "returnsFail"}
      results == {"absent", "truthy", "ok", "fail"}
  IN {Script(TRUE, TRUE, "ok", x[1], x[2], x[3], x[4], x[5], x[6], x[7]) :
        x \in slots \X slots \X slots \X slots \X slots \X results \X results}

SandboxCalls ==
  {[fn |-> "runValidationSandbox", done |-> FALSE, program |-> s, res |-> NotRun] :
     s \in EntryPrograms \cup VerdictPrograms}

\* a rename as git diff --name-status -z prints it: the status with its
\* similarity score, the old path, the new path
R_Rename == DiffRecord(<<"R", "1", "0", "0">>, <<P_MetaA, P_TestMovie>>, JsonBlob(TestMovieDoc))

\* diffs of at most MaxChanges records, plain ones and the rename
ListCalls ==
  LET recs == {R_AddTestMovie, R_DelMetaA, R_ModUnauthorized, R_AddValidation, R_Rename}
      Touches(d, p) == \E n \in 1..Len(d) : \E m \in 1..Len(d[n].paths) : d[n].paths[m] = p
      Fresh(d, r) == \A m \in 1..Len(r.paths) : ~Touches(d, r.paths[m])
      diffs[n \in 0..MaxChanges] ==
        IF n = 0 THEN {<<>>}
        ELSE diffs[n - 1] \cup
               {Append(x[1], x[2]) : x \in {y \in diffs[n - 1] \X recs : Fresh(y[1], y[2])}}
  IN {[fn |-> "listChanged", done |-> FALSE, records |-> d, res |-> <<>>] : d \in diffs[MaxChanges]}

InitCalls ==
  /\ indexFile = NoIndexFile
  /\ clock = 0
  /\ pc = "idle"
  /\ inv = NoInvocation
  /\ out = NoOutcome
  /\ history = NoHistory
  /\ call \in GlobCalls \cup MetaCalls \cup SandboxCalls \cup ListCalls

ApplyGlobMatch ==
  /\ call.fn = "globMatch"
  /\ ~call.done
  /\ call' = [call EXCEPT !.done = TRUE, !.res = globMatch(call.pattern, call.path)]
  /\ UNCHANGED <<indexFile, clock, pc, inv, out, history>>

ApplyValidateMetaYaml ==
  /\ call.fn = "validateMetaYaml"
  /\ ~call.done
  /\ call' = [call EXCEPT !.done = TRUE,
                          !.res = validateMetaYaml(call.blob, call.path, call.hasTextDecoder)]
  /\ UNCHANGED <<indexFile, clock, pc, inv, out, history>>

ApplyRunValidationSandbox ==
  /\ call.fn = "runValidationSandbox"
  /\ ~call.done
  /\ call' = [call EXCEPT !.done = TRUE,
                          !.res = runValidationSandbox(call.program, <<>>, <<>>, TRUE)]
  /\ UNCHANGED <<indexFile, clock, pc, inv, out, history>>

ApplyListChanged ==
  /\ call.fn = "listChanged"
  /\ ~call.done
  /\ call' = [call EXCEPT !.done = TRUE, !.res = listChanged(call.records, FALSE)]
  /\ UNCHANGED <<indexFile, clock, pc, inv, out, history>>

NextCalls ==
  \/ ApplyGlobMatch
  \/ ApplyValidateMetaYaml
  \/ ApplyRunValidationSandbox
  \/ ApplyListChanged

CallSpec == InitCalls /\ [][NextCalls]_vars

\* ------------------------------------------------------------ properties
\* a run has ended or is stuck: inv and out describe it
Ran == pc # "idle"

\* the run got past its environment check and listed its changes
Listed == Ran /\ inv.gitDir /\ inv.newCommit /\ (inv.diffOk \/ (inv.hook = "pre-commit" /\ inv.viaContext))

CommitTime == inv.hook \in {"pre-commit", "relay-pre-commit"}
ReceiveTime == inv.hook = "pre-receive"

\* C1: a run that ends in rejection (a non-zero exit code) never reached
\* upsertIndex and leaves relay_index.json as it was when the run began.
C1_RejectionLeavesIndex ==
  (pc = "exited" /\ out.exit # 0) => (~Took(out, "upsertIndex") /\ indexFile = out.indexBefore)

\* a rejected run on metadata changes, with entries already in the index
C1_Witness ==
  /\ pc = "exited"
  /\ out.exit = 1
  /\ out.result.verdict.ok = "false"
  /\ \E n \in 1..Len(out.changes) : IsMetaFile(out.changes[n].path) /\ out.changes[n].status # "D"
  /\ indexFile.exists
  /\ Len(indexFile.items) > 0

\* C2: at receive time a failed verdict, with native verification failing
\* and the commit validly signed by a key under .relay/.ssh, is rescued:
\* verifyCommitWithAllowedSigners returns true, upsertIndex runs, the hook
\* prints the passed line and exits 0.
C2_RescueByRelayKey ==
  (/\ Ran
   /\ ReceiveTime
   /\ out.result.how = "returned"
   /\ out.result.verdict.ok = "false"
   /\ ~inv.sig.native
   /\ inv.sig.keys = "relay"
   /\ inv.sig.sshOk)
  => (/\ out.verifies # <<>>
      /\ out.verifies[Len(out.verifies)].res = "true"
      /\ Took(out, "upsertIndex")
      /\ out.stdout = <<PassedLine("pre-receive")>>
      /\ out.exit = 0)

\* C3: at commit time a failed verdict ends the run with exit code 1, no
\* signature verification is attempted and the index is not updated.
C3_CommitTimeFailedVerdictRejects ==
  (Ran /\ CommitTime /\ out.result.how = "returned" /\ out.result.verdict.ok = "false")
  => (/\ out.exit = 1
      /\ out.verifies = <<>>
      /\ ~Took(out, "verify")
      /\ ~Took(out, "upsertIndex")
      /\ indexFile = out.indexBefore)

\* a commit-time run on a natively signed commit, rejected for its verdict
\* with metadata changes the index would have taken
C3_Witness ==
  /\ pc = "exited"
  /\ CommitTime
  /\ inv.sig.native
  /\ out.result.verdict.ok = "false"
  /\ out.exit = 1
  /\ \E n \in 1..Len(out.changes) : IsMetaFile(out.changes[n].path) /\ out.changes[n].status # "D"

\* the changes of the run name a hook script
TouchesHookScript ==
  \E n \in 1..Len(out.changes) : out.changes[n].path \in {PreCommitHookPath, PreReceiveHookPath}

\* C4: at receive time a changeset with a hook-script path is accepted only
\* if signature verification succeeds; when it does not the run exits 1
\* before the sandbox, whatever the verdict would be, and the index is left
\* alone.
C4_HookChangeNeedsSignature ==
  (Listed /\ ReceiveTime /\ TouchesHookScript)
  => (/\ out.verifies # <<>>
      /\ out.exit = 0 => out.verifies[1].res = "true"
      /\ out.verifies[1].res # "true" =>
           (out.exit = 1 /\ out.result = NotRun /\ indexFile = out.indexBefore))

\* an unsigned hook change after a metadata change, no program to fail it,
\* rejected
C4_Witness ==
  /\ pc = "exited"
  /\ ReceiveTime
  /\ TouchesHookScript
  /\ Len(out.changes) > 1
  /\ out.changes[1].path \notin {PreCommitHookPath, PreReceiveHookPath}
  /\ ~inv.program.present
  /\ out.verifies[1].res = "false"
  /\ out.exit = 1

\* C5: relay_index.json never holds two entries with the same _branch and
\* _meta_dir.
C5_OneEntryPerKey ==
  \A a \in 1..Len(indexFile.items) : \A b \in 1..Len(indexFile.items) :
    (a # b /\ ~IsNull(indexFile.items[a]) /\ ~IsNull(indexFile.items[b]))
    => key(indexFile.items[a]._branch, indexFile.items[a]._meta_dir)
         # key(indexFile.items[b]._branch, indexFile.items[b]._meta_dir)

\* the entry the index held for a key when the run began, if any
PriorEntries(branch, metaDir) ==
  {n \in 1..Len(out.indexBefore.items) :
     /\ ~IsNull(out.indexBefore.items[n])
     /\ out.indexBefore.items[n]._branch = branch
     /\ out.indexBefore.items[n]._meta_dir = metaDir}

\* C6: after upsertIndex has processed a non-deleted metadata entry whose
\* key already had an entry, the stored entry keeps the prior _created_at
\* and has a refreshed _updated_at; a fresh _created_at is stamped only
\* when the key had no entry.
C6_CreatedAtCarriedOver ==
  (Ran /\ Took(out, "upsertIndex") /\ \A n \in 1..Len(out.changes) : out.changes[n].status # "D")
  => \A a \in 1..Len(indexFile.items) :
       (/\ ~IsNull(indexFile.items[a])
        /\ indexFile.items[a]._updated_at = clock)
       => \A b \in PriorEntries(indexFile.items[a]._branch, indexFile.items[a]._meta_dir) :
            indexFile.items[a]._created_at = out.indexBefore.items[b]._created_at

\* the program of the run never returns control
ProgramLoops == inv.program.present /\ (inv.program.top = "loop" \/ inv.program.validate = "loops")

\* the verdict is the sandbox's own failure
IsSandboxFailure(result) ==
  /\ result.how = "returned"
  /\ result.verdict.ok = "false"
  /\ result.verdict.message # <<>>
  /\ result.verdict.message[1].tag = "validation.mjs error: "

\* C7: a run of the sandbox on a program that never returns control, at top
\* level or inside validate(api), ends with a failed verdict whose message
\* starts with 'validation.mjs error:'; no run hangs.
C7_SandboxAlwaysReturns ==
  /\ pc # "hung"
  /\ (Ran /\ Took(out, "sandbox") /\ ProgramLoops) => IsSandboxFailure(out.result)

\* the program of the run raises an exception when compiled or executed
ProgramThrows ==
  /\ inv.program.present
  /\ (~inv.program.compiles \/ inv.program.top = "throw" \/ inv.program.validate = "throws")

\* C8: an exception raised while compiling or executing the program,
\* a syntax error included, comes back from runValidationSandbox as the
\* failed verdict 'validation.mjs error: ...', and at receive time the run
\* goes on to the signature rescue.
C8_ExceptionsBecomeVerdicts ==
  (Ran /\ Took(out, "sandbox") /\ ProgramThrows)
  => (/\ IsSandboxFailure(out.result)
      /\ ReceiveTime =>
           \E n \in 1..(Len(out.trace) - 1) : out.trace[n] = "sandbox" /\ out.trace[n + 1] = "verify")

\* the run's program is the reference validation program
ReferenceRun == Listed /\ inv.program = ReferenceProgram

\* the changes of the run that the whitelist does not match, in order
NotWhitelisted ==
  LET Bad(c) == ~isWhitelisted(c.path) IN SelectSeq(out.changes, Bad)

\* one 'Path not allowed: <path>' line per such change, in order
PathNotAllowedLines ==
  [n \in 1..Len(NotWhitelisted) |-> Line("PathNotAllowed", NotWhitelisted[n].path)]

\* the 'Path not allowed' lines of a message
NotAllowedIn(message) ==
  LET IsNotAllowed(l) == l.tag = "PathNotAllowed" IN SelectSeq(message, IsNotAllowed)

IsNestedContent(p) ==
  /\ StartsWith(p, S_data \o <<SLASH>>)
  /\ \E name \in {S_meta_yaml, S_meta_yml, S_index_md} :
       /\ EndsWith(p, <<SLASH>> \o name)
       /\ Len(p) > Len(S_data) + 2 + Len(name)

\* C10: the reference whitelist matches every metadata path nested under
\* data/, at any depth, and the receive-time changeset of
\* .relay/validation.mjs with a schema-valid data/2026/test-movie/meta.yaml
\* passes: exit 0 and the passed line, without a signature.
C10_NestedMetadataAccepted ==
  (ReferenceRun /\ ReceiveTime)
  => (/\ \A n \in 1..Len(out.changes) :
           IsNestedContent(out.changes[n].path) => isWhitelisted(out.changes[n].path)
      /\ (inv.records = <<R_AddValidation, R_AddTestMovie>> /\ inv.sig = Unsigned) =>
           (/\ out.result.verdict.ok = "true"
            /\ out.exit = 0
            /\ out.stdout = <<PassedLine("pre-receive")>>))

\* the segments of a path or pattern: String.prototype.split('/')
RECURSIVE SplitAtSlash(_)
SplitAtSlash(s) ==
  LET S == {i \in 1..Len(s) : s[i] = SLASH}
  IN IF S = {} THEN <<s>>
     ELSE LET i == CHOOSE x \in S : \A y \in S : x <= y
          IN <<SubSeq(s, 1, i - 1)>> \o SplitAtSlash(SubSeq(s, i + 1, Len(s)))

\* the reference relation within one segment: * stands for any run of
\* characters of the segment, every other character for itself
RECURSIVE SegmentMatches(_, _)
SegmentMatches(ps, s) ==
  IF ps = <<>> THEN s = <<>>
  ELSE IF Head(ps) = "*"
    THEN \E k \in 0..Len(s) : SegmentMatches(Tail(ps), SubSeq(s, k + 1, Len(s)))
  ELSE s # <<>> /\ Head(s) = Head(ps) /\ SegmentMatches(Tail(ps), Tail(s))

\* the reference glob relation on segment lists: ** stands for zero or
\* more complete segments, every other pattern segment for one segment
RECURSIVE GlobRelation(_, _)
GlobRelation(pats, segs) ==
  IF pats = <<>> THEN segs = <<>>
  ELSE IF Head(pats) = S_starstar
    THEN \E k \in 0..Len(segs) : GlobRelation(Tail(pats), SubSeq(segs, k + 1, Len(segs)))
  ELSE segs # <<>> /\ SegmentMatches(Head(pats), Head(segs)) /\ GlobRelation(Tail(pats), Tail(segs))

\* C11: globMatch(pattern, path) is the reference glob relation: * matches
\* within one segment and never a "/", ** matches zero or more complete
\* segments.
C11_GlobMatchIsReference ==
  (call.fn = "globMatch" /\ call.done)
  => (call.res = GlobRelation(SplitAtSlash(call.pattern), SplitAtSlash(call.path)))

\* the schema as the claim states it, on a parsed document
SchemaTitleOk(v) == v.t = "str" /\ \E n \in 1..Len(v.s) : v.s[n] \notin {" ", "\t", "\n", "\r"}
SchemaDateOk(v) ==
  /\ v.t = "str"
  /\ Len(v.s) = 10
  /\ \A n \in 1..10 : IF n \in {5, 8} THEN v.s[n] = "-" ELSE v.s[n] \in Digits
SchemaGenreOk(v) == v.t = "arr" /\ \A n \in 1..Len(v.a) : v.a[n].t = "str"

C15_MissingEnvExitCode ==
  (Ran /\ (~inv.gitDir \/ ~inv.newCommit))
  => (/\ out.trace = <<>>
      /\ indexFile = out.indexBefore
      /\ out.exit \notin {0, 1})

\* two index files with the same entries in the same places, up to the
\* entries' _updated_at
SameContent(f, g) ==
  /\ Len(f.items) = Len(g.items)
  /\ \A n \in 1..Len(f.items) :
       IF IsNull(f.items[n]) \/ IsNull(g.items[n]) THEN f.items[n] = g.items[n]
       ELSE [f.items[n] EXCEPT !._updated_at = 0] = [g.items[n] EXCEPT !._updated_at = 0]

\* C16: running an accepted invocation a second time, on the index the
\* first run left, leaves the same index content as the first run did; only
\* _updated_at may differ.
C16_SecondRunChangesNothing ==
  (pc = "exited" /\ Took(out, "upsertIndex"))
  => SameContent(upsertIndex(indexFile, out.changes, inv.records, inv.branch, clock + 1), indexFile)

\* the entries the index holds for a key
EntriesOf(file, k) ==
  {n \in 1..Len(file.items) :
     ~IsNull(file.items[n]) /\ <<file.items[n]._branch, file.items[n]._meta_dir>> = k}

\* the documents of the run's non-deleted metadata entries in a directory
DocumentsIn(metaDir) ==
  {readFromTree(inv.records, out.changes[n].path).doc :
     n \in {m \in 1..Len(out.changes) :
              /\ out.changes[m].status # "D"
              /\ IsMetaFile(out.changes[m].path)
              /\ Dirname(out.changes[m].path) = metaDir
              /\ readFromTree(inv.records, out.changes[m].path).kind = "json"}}

FinalSegment(p) == SubSeq(p, LastSlash(p) + 1, Len(p))

IsMetadataName(p) == FinalSegment(p) \in {S_meta_yaml, S_meta_yml}

\* C18: upsertIndex treats a changed entry as a metadata file exactly when
\* the final segment of its path is meta.yaml or meta.yml; a run whose
\* changes have no such final segment (data/b/notmeta.yaml, say) creates,
\* replaces and deletes no entry.
C18_MetadataByFinalSegment ==
  (pc = "exited" /\ Took(out, "upsertIndex"))
  => /\ \A n \in 1..Len(out.changes) :
          IsMetaFile(out.changes[n].path) <=> IsMetadataName(out.changes[n].path)
     /\ (\A n \in 1..Len(out.changes) : ~IsMetadataName(out.changes[n].path))
          => indexFile.items = out.indexBefore.items

\* a record of a non-deleted metadata file that cannot be read at the new
\* revision or that no parser accepts
IsBadMetadata(r) ==
  /\ r.status # <<"D">>
  /\ IsMetaFile(LastPath(r))
  /\ r.blob.kind # "json"

\* the invocation with those records absent from its diff
WithoutBadMetadata(i) ==
  LET Keep(r) == ~IsBadMetadata(r)
  IN [i EXCEPT !.records = SelectSeq(i.records, Keep)]

\* C19: in an accepted run, a non-deleted metadata file that cannot be
\* read or parsed is skipped: relay_index.json, the exit code and the
\* output are those of the same run with that entry absent from the
\* changeset, so the other entries are still applied.
C19_BadMetadataSkipped ==
  (pc = "exited" /\ Took(out, "upsertIndex"))
  => \E r \in {PreReceiveMain(WithoutBadMetadata(inv), out.indexBefore, clock)} :
       /\ r.file = indexFile
       /\ r.out.exit = out.exit
       /\ r.out.stdout = out.stdout
       /\ r.out.stderr = out.stderr

\* an accepted run with an unparsable and a good metadata file: the good
\* one is written, the directory of the other has no entry
C19_Witness ==
  /\ pc = "exited"
  /\ out.exit = 0
  /\ Took(out, "upsertIndex")
  /\ \E a \in 1..Len(inv.records) : \E b \in 1..Len(inv.records) :
       /\ IsBadMetadata(inv.records[a])
       /\ inv.records[a].blob.kind = "garbage"
       /\ ~IsBadMetadata(inv.records[b])
       /\ <<inv.branch, Dirname(LastPath(inv.records[b]))>> \in EntryKeys(indexFile) \ EntryKeys(out.indexBefore)
       /\ <<inv.branch, Dirname(LastPath(inv.records[a]))>> \notin EntryKeys(indexFile)

\* the run's non-deleted metadata entries that were read and parsed
WrittenChanges ==
  {n \in 1..Len(out.changes) :
     /\ out.changes[n].status # "D"
     /\ IsMetaFile(out.changes[n].path)
     /\ readFromTree(inv.records, out.changes[n].path).kind = "json"}

\* the entries the index holds now and did not hold when the run began
NewEntries ==
  {indexFile.items[n] : n \in {m \in 1..Len(indexFile.items) : ~IsNull(indexFile.items[m])}}
    \ {out.indexBefore.items[n] :
         n \in {m \in 1..Len(out.indexBefore.items) : ~IsNull(out.indexBefore.items[m])}}

\* the entry upsertIndex builds for a written change
EntryFor(n) ==
  IndexEntry(yamlToJson(readFromTree(inv.records, out.changes[n].path)),
             inv.branch, Dirname(out.changes[n].path), clock)

\* C20: every entry an accepted run writes has the run's branch as _branch,
\* the directory of its metadata file as _meta_dir and the run's time as
\* _updated_at, whatever the document sets for these fields: so is each
\* entry the run builds, and so is each entry the index file gained; the
\* entry of data/2026/test-movie/meta.yaml on main is keyed
\* (main, data/2026/test-movie).
C20_SystemFieldsFromTheRun ==
  (pc = "exited" /\ Took(out, "upsertIndex"))
  => /\ \A n \in WrittenChanges :
          /\ EntryFor(n)._branch = inv.branch
          /\ EntryFor(n)._meta_dir = Dirname(out.changes[n].path)
          /\ EntryFor(n)._updated_at = clock
          /\ (inv.branch = B_main /\ out.changes[n].path = P_TestMovie)
               => <<EntryFor(n)._branch, EntryFor(n)._meta_dir>>
                    = <<B_main, JoinPath(<<S_data, S_2026, S_test_movie>>)>>
     /\ \A e \in NewEntries :
          \E n \in WrittenChanges : e = EntryFor(n)

\* a run on main that writes the test movie and a document naming another
\* branch and directory for itself
C20_Witness ==
  /\ pc = "exited"
  /\ Took(out, "upsertIndex")
  /\ inv.branch = B_main
  /\ \E n \in WrittenChanges : out.changes[n].path = P_TestMovie
  /\ \E n \in WrittenChanges :
       /\ readFromTree(inv.records, out.changes[n].path).doc = StampedDoc
       /\ \E e \in NewEntries :
            /\ e._branch = B_main
            /\ e._meta_dir = Dirname(P_MetaA)
            /\ e._created_at = StampedDoc.created

\* the first function among the values of a name, in lookup order
FirstFunction(values) ==
  LET S == {n \in 1..Len(values) : IsFunction(values[n])}
  IN IF S = {} THEN "none" ELSE values[CHOOSE n \in S : \A m \in S : n <= m]

\* the first object among the values of validationResult
FirstObject(values) ==
  LET S == {n \in 1..Len(values) : values[n] \in {"ok", "fail", "noOk", "okNotTrue"}}
  IN IF S = {} THEN "none" ELSE values[CHOOSE n \in S : \A m \in S : n <= m]

\* the resolution order: a function named validate, else a function named
\* default, else a validationResult object, else { ok: true }
ResolutionOrder(program) ==
  LET v == FirstFunction(<<program.validate, program.rValidate, program.mValidate>>)
      d == FirstFunction(<<program.dflt, program.rDflt>>)
      r == FirstObject(<<program.vres, program.rVres>>)
  IN IF v # "none" THEN CallValidate(v, <<>>, <<>>, TRUE)
     ELSE IF d # "none" THEN CallValidate(d, <<>>, <<>>, TRUE)
     ELSE IF r # "none" THEN Returned(ObjectVerdict(r))
     ELSE Returned(OkVerdict)

\* C21: runValidationSandbox returns what the resolution order gives: the
\* result of the function named validate (global, property of the
\* completion value or module.exports.validate) if there is one, else of
\* the function named default, else the validationResult object, else
\* { ok: true }.
C21_EntryPointOrder ==
  (call.fn = "runValidationSandbox" /\ call.done) => call.res = ResolutionOrder(call.program)

\* the whole run of the hook script an invocation names
HookMain(i, file, now) ==
  IF i.hook = "pre-receive" THEN PreReceiveMain(i, file, now)
  ELSE IF i.hook = "pre-commit" THEN PreCommitMain(i, file, now)
  ELSE RelayPreCommitMain(i, file, now)

\* the entry point of the run's program returns a Promise
ReturnsPromise ==
  /\ Took(out, "sandbox")
  /\ ResolveEntry(inv.program) \in {"returnsPromiseOfOk", "returnsPromiseOfFail"}

\* the invocation whose Promise settles to the other value
OtherPromise(i) ==
  [i EXCEPT !.program.validate =
     IF @ = "returnsPromiseOfOk" THEN "returnsPromiseOfFail" ELSE "returnsPromiseOfOk"]

\* C22: when the validation function returns a Promise the sandbox's verdict
\* is the failure 'validation.mjs error: validation.mjs returned a
\* Promise; async not supported', and the run ends as the same run would
\* with a Promise of the opposite eventual value: same exit code, output
\* and index.
C22_PromiseIsFailure ==
  (pc = "exited" /\ ReturnsPromise)
  => /\ out.result.how = "returned"
     /\ out.result.verdict = Verdict("false", <<PromiseLine>>)
     /\ HookMain(OtherPromise(inv), out.indexBefore, clock) = Run(out, indexFile)

\* a commit-time run rejected with the Promise message, though the Promise
\* would settle to an accepting verdict
C22_Witness ==
  /\ pc = "exited"
  /\ inv.hook = "pre-commit"
  /\ ResolveEntry(inv.program) = "returnsPromiseOfOk"
  /\ out.exit = 1
  /\ out.stderr = <<PromiseLine>>

\* the run printed its success line
ReportedSuccess ==
  \E n \in 1..Len(out.stdout) : out.stdout[n].tag = "validation passed"

\* C23: a run that reports success ('pre-commit validation passed' or
\* 'pre-receive validation passed', exit 0) completed upsertIndex over the
\* changeset before it printed the success line.
C23_IndexedBeforeSuccess ==
  (pc = "exited" /\ out.exit = 0 /\ ReportedSuccess)
  => \E a \in 1..Len(out.trace) : \E b \in 1..Len(out.trace) :
       /\ a < b
       /\ out.trace[a] = "upsertIndex"
       /\ out.trace[b] = "log"

\* C24: however the changeset is supplied (the diff of the two revisions
\* or an injected context), listChanged reports its records in order, a
\* deleted path with status D and any other path with another status, and
\* an accepted run leaves no index entry for a deleted metadata file.
C24_DeletionsReported ==
  (pc = "exited" /\ Listed /\ \A n \in 1..Len(inv.records) : Len(inv.records[n].paths) = 1)
  => /\ Len(out.changes) = Len(inv.records)
     /\ \A n \in 1..Len(out.changes) :
          /\ out.changes[n].path = LastPath(inv.records[n])
          /\ out.changes[n].status = "D" <=> inv.records[n].status = <<"D">>
     /\ Took(out, "upsertIndex")
          => \A n \in 1..Len(inv.records) :
               (inv.records[n].status = <<"D">> /\ IsMetaFile(LastPath(inv.records[n])))
               => <<inv.branch, Dirname(LastPath(inv.records[n]))>> \notin EntryKeys(indexFile)

\* C25: a commit-time run whose changes name .relay/pre-commit.mjs or
\* .relay/pre-receive.mjs is accepted only if the commit's signature
\* verifies, whatever the verdict.
C25_CommitTimeHookChangeNeedsSignature ==
  (pc = "exited" /\ CommitTime /\ Listed /\ TouchesHookScript /\ out.exit = 0)
  => verifyCommitWithAllowedSigners(inv.sig).res = "true"

\* the keys the run's metadata entries name
NamedKeys ==
  {<<inv.branch, Dirname(out.changes[n].path)>> :
     n \in {m \in 1..Len(out.changes) : IsMetaFile(out.changes[m].path)}}

\* the entries of other keys, in the order the file holds them
OtherEntries(file) ==
  LET Other(e) == ~IsNull(e) /\ <<e._branch, e._meta_dir>> \notin NamedKeys
  IN SelectSeq(file.items, Other)

\* C26: upsertIndex leaves the entries of every key that no metadata entry
\* of the changeset names as they were: the same entries in the same order,
\* none overwritten, removed or duplicated.
C26_OtherKeysUntouched ==
  (pc = "exited" /\ Took(out, "upsertIndex"))
  => OtherEntries(indexFile) = OtherEntries(out.indexBefore)

\* the program's entry point returned, or its validationResult is, an
\* object whose ok is the boolean true
ProducedOkTrue(program) ==
  \/ ResolveEntry(program) = "returnsOk"
  \/ ResolveEntry(program) = "none" /\ ResolveResult(program) = "ok"

\* C27: a run on a validation program that is accepted without a signature
\* verification was given a verdict whose ok is the boolean true by the
\* program: false, null, undefined or an object whose ok is missing or not
\* true do not lead to acceptance.
C27_AcceptedOnlyOnOkTrue ==
  (pc = "exited" /\ inv.program.present /\ Took(out, "sandbox") /\ out.verifies = <<>> /\ out.exit = 0)
  => ProducedOkTrue(inv.program)

\* the paths a diff reports, each with the status letter of its record
RECURSIVE ReportedPaths(_)
ReportedPaths(records) ==
  IF records = <<>> THEN <<>>
  ELSE [m \in 1..Len(Head(records).paths) |->
          [status |-> Head(records).status[1], path |-> Head(records).paths[m]]]
         \o ReportedPaths(Tail(records))

\* C28: every path of the name-status diff is the path of exactly one
\* ChangeEntry, with the status letter of its record, in diff order - also
\* for a rename record, which has a status and two paths.
C28_EveryPathOneEntry ==
  (call.fn = "listChanged" /\ call.done) => call.res = ReportedPaths(call.records)

\* the changes of the run name .relay/validation.mjs
TouchesValidationProgram ==
  \E n \in 1..Len(out.changes) : out.changes[n].path = ValidationPath

\* C29: a run whose changeset adds, replaces or deletes
\* .relay/validation.mjs goes to the sandbox without a signature check and
\* is judged by the program of the new revision, or accepted by default
\* when the new revision has none; the program of the old revision changes
\* nothing in the run.
C29_JudgedByNewProgram ==
  (pc = "exited" /\ Listed /\ TouchesValidationProgram /\ ~TouchesHookScript)
  => /\ out.trace[2] = "sandbox"
     /\ ~inv.program.present => out.result = AllowedByDefault
     /\ inv.program.present =>
          out.result = RunScript(inv.program, out.changes, inv.records, CommitTime)
     /\ \A q \in {x[3] : x \in ProgramChanges} :
          HookMain([inv EXCEPT !.oldProgram = q], out.indexBefore, clock) = Run(out, indexFile)

\* an unsigned push that deletes a validation program which rejects
\* everything is accepted, no program being left to judge it
C29_Witness ==
  /\ pc = "exited"
  /\ ReceiveTime
  /\ TouchesValidationProgram
  /\ inv.oldProgram.present
  /\ ResolveEntry(inv.oldProgram) = "returnsFail"
  /\ ~inv.program.present
  /\ inv.sig = Unsigned
  /\ out.exit = 0

\* a path that data/**/meta.yaml or data/**/meta.yml stands for
IsWhitelistedMetadata(p) ==
  \E n \in {1, 2} : GlobRelation(SplitAtSlash(WhitelistPatterns[n]), SplitAtSlash(p))

\* the run's Deleted entries of such paths
DeletedMetadata ==
  {n \in 1..Len(out.changes) :
     out.changes[n].status = "D" /\ IsWhitelistedMetadata(out.changes[n].path)}

\* C30: under the reference program a changeset with a Deleted entry of a
\* whitelisted metadata path gets a failed verdict with the line
\* 'Cannot read <path>' for it, so such a run reaches upsertIndex only
\* through a receive-time signature rescue.
C30_DeletedMetadataCannotBeRead ==
  (pc = "exited" /\ ReferenceRun /\ Took(out, "sandbox") /\ DeletedMetadata # {})
  => /\ out.result.verdict.ok = "false"
     /\ \A n \in DeletedMetadata :
          \E m \in 1..Len(out.result.verdict.message) :
            out.result.verdict.message[m] = Line("CannotRead", out.changes[n].path)
     /\ Took(out, "upsertIndex") =>
          (ReceiveTime /\ out.verifies # <<>> /\ out.verifies[Len(out.verifies)].res = "true")

====
